---- MODULE Spec2Model ----
(***************************************************************************)
(* Model of the exercise programs of the repository:                       *)
(*   src/src/base_freq.py        FASTA base-frequency counter              *)
(*   src/src/at_content.py       AT-content calculator                     *)
(*   src/src/gene_expression.py  gene-expression threshold filter          *)
(*   src/src/k_mers.py           k-mer counter                             *)
(*   src/src/rps.py              rock-paper-scissors game                  *)
(* A Python str is a sequence of one-character strings.  Each program has  *)
(* its own variables and its own specification; the variables of the other *)
(* programs stay at their idle values.                                     *)
(***************************************************************************)
EXTENDS Integers, Sequences, FiniteSets, TLC

VARIABLES
    \* base_freq.py: main
    fs,             \* the file at path `ruta`: exists, readable, content
    bf_pc,          \* position in main
    contenido,      \* text returned by read_file
    header,         \* header of the first record
    seq_raw,        \* raw sequence of the first record
    seq_clean,      \* cleaned sequence
    invalid_chars,  \* invalid characters, in order
    bf_out,         \* lines printed so far
    bf_rc,          \* value returned by main (-1: not returned yet)
    \* base_freq.py: clean_sequence called on its own
    cs_seq,         \* argument seq
    cs_ret,         \* returned pair
    cs_pc,
    \* at_content.py: get_at_content
    dna,            \* argument dna
    sig_figs,       \* argument sig_figs
    at_ret,         \* returned value
    at_pc,
    \* gene_expression.py: main
    ge_table,       \* the TSV file: its columns and its rows of cells
    threshold,      \* args.threshold
    df,             \* the DataFrame load_expression_table returns
    filtered,       \* the DataFrame filter_gene returns
    ge_out,         \* lines printed so far
    ge_raised,      \* the exception main ended with, "" when none
    ge_pc,
    \* k_mers.py: validate_sequence, then count_kmers
    km_arg,         \* argument seq of validate_sequence (None or a str)
    km_k,           \* argument k of count_kmers
    km_seq,         \* the validated sequence
    km_counts,      \* the dict counts
    km_i,           \* the loop variable i
    km_raised,      \* the ValueError raised, "" when none
    km_invalid,     \* the invalid characters the message lists
    km_pc,
    \* rps.py: main
    rps_stdin,      \* the lines standard input still holds
    user_input,     \* the line read, stripped and lowercased
    cpu_choice,     \* the choice of the CPU in the last round
    result,         \* the result of the last round
    rps_rounds,     \* how many times play was called
    rps_out,        \* lines printed so far
    rps_raised,     \* the exception main ended with, "" when none
    rps_pc

bfVars == <<fs, bf_pc, contenido, header, seq_raw, seq_clean, invalid_chars, bf_out, bf_rc>>
csVars == <<cs_seq, cs_ret, cs_pc>>
atVars == <<dna, sig_figs, at_ret, at_pc>>
geVars == <<ge_table, threshold, df, filtered, ge_out, ge_raised, ge_pc>>
kmVars == <<km_arg, km_k, km_seq, km_counts, km_i, km_raised, km_invalid, km_pc>>
rpsVars == <<rps_stdin, user_input, cpu_choice, result, rps_rounds, rps_out, rps_raised, rps_pc>>
vars == <<bfVars, csVars, atVars, geVars, kmVars, rpsVars>>

\* the variables of the other programs
notBf == <<csVars, atVars, geVars, kmVars, rpsVars>>
notCs == <<bfVars, atVars, geVars, kmVars, rpsVars>>
notAt == <<bfVars, csVars, geVars, kmVars, rpsVars>>
notGe == <<bfVars, csVars, atVars, kmVars, rpsVars>>
notKm == <<bfVars, csVars, atVars, geVars, rpsVars>>
notRps == <<bfVars, csVars, atVars, geVars, kmVars>>

----------------------------------------------------------------------------
(* Bounds of the model                                                     *)

\* longest enumerated file content (base_freq)
MaxContentLen == 5
\* longest enumerated argument of clean_sequence
MaxCleanLen == 3
\* longest enumerated argument dna of get_at_content
MaxDnaLen == 4
\* largest enumerated sig_figs
MaxSigFigs == 2
\* most rows of an enumerated expression table
MaxRows == 3
\* longest enumerated argument of validate_sequence
MaxSeqLen == 4
\* most lines standard input holds (rps)
MaxInputLines == 3

----------------------------------------------------------------------------
(* Python str operations                                                   *)

\* all strings over alphabet of length at most n
StringsUpTo(alphabet, n) == UNION {[1..k -> alphabet] : k \in 0..n}

\* str.isspace for one character (the whitespace str.strip removes)
IsSpace(c) == c \in {" ", "\n", "\t", "\r"}

\* sub in s, for a one-character sub
Contains(s, c) == \E i \in 1..Len(s) : s[i] = c

\* str.count for a one-character argument
RECURSIVE Count(_, _)
Count(s, c) ==
    IF s = <<>> THEN 0
    ELSE (IF Head(s) = c THEN 1 ELSE 0) + Count(Tail(s), c)

\* str.lstrip()
RECURSIVE LStrip(_)
LStrip(s) ==
    IF s # <<>> /\ IsSpace(Head(s)) THEN LStrip(Tail(s)) ELSE s

\* str.rstrip()
RECURSIVE RStrip(_)
RStrip(s) ==
    IF s # <<>> /\ IsSpace(s[Len(s)]) THEN RStrip(SubSeq(s, 1, Len(s) - 1)) ELSE s

\* str.strip()
Strip(s) == RStrip(LStrip(s))

\* str.split(sep) for a one-character sep: always at least one part
RECURSIVE Split(_, _)
Split(s, sep) ==
    IF ~Contains(s, sep) THEN <<s>>
    ELSE LET i == CHOOSE i \in 1..Len(s) :
                      s[i] = sep /\ \A j \in 1..(i - 1) : s[j] # sep
         IN  <<SubSeq(s, 1, i - 1)>> \o Split(SubSeq(s, i + 1, Len(s)), sep)

\* "".join(parts)
RECURSIVE Join(_)
Join(parts) ==
    IF parts = <<>> THEN <<>> ELSE Head(parts) \o Join(Tail(parts))

\* str.upper for one character (the characters the model uses)
UpperChar(c) ==
    CASE c = "a" -> "A" [] c = "c" -> "C" [] c = "g" -> "G" [] c = "t" -> "T"
      [] c = "n" -> "N" [] c = "x" -> "X" [] c = "y" -> "Y" [] c = "z" -> "Z"
      [] c = "h" -> "H" [] c = "s" -> "S" [] c = "e" -> "E" [] c = "q" -> "Q"
      [] OTHER -> c

\* str.upper
Upper(s) == [i \in 1..Len(s) |-> UpperChar(s[i])]

----------------------------------------------------------------------------
(* base_freq.py                                                            *)

MSG_NOT_FOUND   == "Error: el archivo no existe:"
MSG_IO          == "Error al leer el archivo:"
MSG_NOT_FASTA   == "Error: El archivo no parece estar en formato FASTA."
MSG_EMPTY_FASTA == "Error: FASTA vacío o sin secuencia válida."
MSG_EMPTY_SEQ   == "Error: la secuencia está vacía."
MSG_NO_VALID    == "Error: la secuencia no contiene bases válidas (A,T,G,C)."
MSG_AVISO       == "Aviso: caracter inválido ignorado en la secuencia"

valid_bases == {"A", "T", "G", "C"}

\* one printed line: its fixed text, and the character, the str and the number
\* formatted into it
Line(kind, text, ch, arg, n) ==
    [kind |-> kind, text |-> text, ch |-> ch, arg |-> arg, n |-> n]

read_file_without_exists_check(f) ==
    IF ~f.exists \/ ~f.readable THEN [raised |-> "IOError", value |-> <<>>]
    ELSE [raised |-> "", value |-> f.content]

\* read_file: FileNotFoundError, IOError, or the content
read_file(f) ==
    IF ~f.exists THEN [raised |-> "FileNotFoundError", value |-> <<>>]
    ELSE IF ~f.readable THEN [raised |-> "IOError", value |-> <<>>]
    ELSE [raised |-> "", value |-> f.content]

\* validate_is_fasta: the message of the ValueError raised, "" when none
validate_is_fasta(content) ==
    IF ~Contains(content, ">") THEN MSG_NOT_FASTA
    ELSE LET partes == Split(content, ">")
         IN  IF Len(partes) < 2 THEN MSG_EMPTY_FASTA ELSE ""

parse_single_fasta_last_record(content) ==
    LET partes == Split(content, ">")
        bloque == Split(Strip(partes[Len(partes)]), "\n")
        hd     == bloque[1]
        sq     == Strip(Join(Tail(bloque)))
    IN  IF Len(sq) = 0
        THEN [raised |-> MSG_EMPTY_SEQ, header |-> <<>>, seq_raw |-> <<>>]
        ELSE [raised |-> "", header |-> hd, seq_raw |-> sq]

\* parse_single_fasta for a content with the marker
parse_single_fasta(content) ==
    LET partes == Split(content, ">")
        bloque == Split(Strip(partes[2]), "\n")
        hd     == bloque[1]
        sq     == Strip(Join(Tail(bloque)))
    IN  IF Len(sq) = 0
        THEN [raised |-> MSG_EMPTY_SEQ, header |-> <<>>, seq_raw |-> <<>>]
        ELSE [raised |-> "", header |-> hd, seq_raw |-> sq]

\* the loop of clean_sequence over seq_upper[from..]
RECURSIVE CleanLoop(_, _, _)
CleanLoop(seq_upper, clean, invalid) ==
    IF seq_upper = <<>> THEN [clean |-> clean, invalid |-> invalid]
    ELSE LET base == Head(seq_upper)
         IN  IF base \in valid_bases
             THEN CleanLoop(Tail(seq_upper), Append(clean, base), invalid)
             ELSE CleanLoop(Tail(seq_upper), clean, Append(invalid, base))

clean_sequence_no_upper(seq) == CleanLoop(seq, <<>>, <<>>)

\* clean_sequence: (cleaned sequence, invalid characters)
clean_sequence(seq) == CleanLoop(Upper(seq), <<>>, <<>>)

compute_base_counts_g_as_c(seq) ==
    [A |-> Count(seq, "A"), T |-> Count(seq, "T"), G |-> Count(seq, "C"),
     C |-> Count(seq, "C"), total |-> Len(seq)]

\* compute_base_counts
compute_base_counts(seq) ==
    [A |-> Count(seq, "A"), T |-> Count(seq, "T"), G |-> Count(seq, "G"),
     C |-> Count(seq, "C"), total |-> Len(seq)]

\* print_results: the lines printed (the percentage text of a base line is
\* not modelled)
print_results(hd, counts) ==
    << Line("report", "Encabezado:", "", hd, 0),
       Line("report", "Longitud secuencia válida:", "", <<>>, counts.total),
       Line("report", "Frecuencias:", "", <<>>, 0),
       Line("report", "A:", "", <<>>, counts.A),
       Line("report", "T:", "", <<>>, counts.T),
       Line("report", "G:", "", <<>>, counts.G),
       Line("report", "C:", "", <<>>, counts.C) >>

Avisos_last_first(invalid, hd) ==
    [i \in 1..Len(invalid) |->
        Line("aviso", MSG_AVISO, invalid[Len(invalid) + 1 - i], hd, 0)]

\* the advisories main prints, one per invalid character, in order
Avisos(invalid, hd) ==
    [i \in 1..Len(invalid) |-> Line("aviso", MSG_AVISO, invalid[i], hd, 0)]

\* an error message printed by main
ErrorLine(msg) == Line("error", msg, "", <<>>, 0)

\* characters of the enumerated file contents: the marker, a line break, a
\* space, an upper-case base, a lower-case base, a lower-case non-base
BfAlphabet == {">", "\n", " ", "A", "g", "x"}

\* file contents of tests/test_base_freq.py
EX_SEQ1     == <<">","s","e","q","1","\n","A","T","G","C","a","t","g","N","x","y","z","\n">>
EX_TWO      == <<">","h","1","\n","A","T","G","\n",">","h","2","\n","C","C","C","C","\n">>
EX_NOVALID  == <<">","s","\n","N","N","N","N","x","x","x","\n">>
BfExamples  == {EX_SEQ1, EX_TWO, EX_NOVALID}

Contents == StringsUpTo(BfAlphabet, MaxContentLen) \cup BfExamples

\* the file the path names: missing, present but unreadable, or readable
Files ==
    {[exists |-> FALSE, readable |-> FALSE, content |-> <<>>],
     [exists |-> TRUE, readable |-> FALSE, content |-> <<>>]}
    \cup {[exists |-> TRUE, readable |-> TRUE, content |-> c] : c \in Contents}

BfIdle ==
    /\ fs = [exists |-> FALSE, readable |-> FALSE, content |-> <<>>]
    /\ bf_pc = "idle"
    /\ contenido = <<>> /\ header = <<>> /\ seq_raw = <<>>
    /\ seq_clean = <<>> /\ invalid_chars = <<>>
    /\ bf_out = <<>> /\ bf_rc = -1

CsIdle == cs_seq = <<>> /\ cs_ret = [clean |-> <<>>, invalid |-> <<>>] /\ cs_pc = "idle"

AtIdle ==
    /\ dna = <<>> /\ sig_figs = 0 /\ at_pc = "idle"
    /\ at_ret = [raised |-> "", scaled |-> 0, digits |-> 0]

GeIdle ==
    /\ ge_table = [columns |-> {}, rows |-> <<>>] /\ threshold = 0
    /\ df = <<>> /\ filtered = <<>> /\ ge_out = <<>>
    /\ ge_raised = "" /\ ge_pc = "idle"

KmIdle ==
    /\ km_arg = [none |-> TRUE, value |-> <<>>]
    /\ km_k = [is_int |-> TRUE, value |-> 0]
    /\ km_seq = <<>> /\ km_counts = <<>> /\ km_i = 0
    /\ km_raised = "" /\ km_invalid = <<>> /\ km_pc = "idle"

RpsIdle ==
    /\ rps_stdin = <<>> /\ user_input = <<>> /\ cpu_choice = <<>> /\ result = ""
    /\ rps_rounds = 0 /\ rps_out = <<>> /\ rps_raised = "" /\ rps_pc = "idle"

BfInit ==
    /\ fs \in Files
    /\ bf_pc = "start"
    /\ contenido = <<>> /\ header = <<>> /\ seq_raw = <<>>
    /\ seq_clean = <<>> /\ invalid_chars = <<>>
    /\ bf_out = <<>> /\ bf_rc = -1

\* main, lines 146-153: read the file
BfReadFile ==
    /\ bf_pc = "start"
    /\ LET r == read_file(fs)
       IN  IF r.raised = "FileNotFoundError"
           THEN /\ bf_out' = Append(bf_out, ErrorLine(MSG_NOT_FOUND))
                /\ bf_rc' = 1 /\ bf_pc' = "done" /\ UNCHANGED contenido
           ELSE IF r.raised = "IOError"
           THEN /\ bf_out' = Append(bf_out, ErrorLine(MSG_IO))
                /\ bf_rc' = 1 /\ bf_pc' = "done" /\ UNCHANGED contenido
           ELSE /\ contenido' = r.value
                /\ bf_pc' = "loaded" /\ UNCHANGED <<bf_out, bf_rc>>
    /\ UNCHANGED <<fs, header, seq_raw, seq_clean, invalid_chars, notBf>>

\* main, lines 157 and 173-176: validate_is_fasta
BfValidate ==
    /\ bf_pc = "loaded"
    /\ LET e == validate_is_fasta(contenido)
       IN  IF e # ""
           THEN /\ bf_out' = Append(bf_out, ErrorLine(e))
                /\ bf_rc' = 1 /\ bf_pc' = "done"
           ELSE /\ bf_pc' = "validated" /\ UNCHANGED <<bf_out, bf_rc>>
    /\ UNCHANGED <<fs, contenido, header, seq_raw, seq_clean, invalid_chars, notBf>>

\* main, lines 158 and 173-176: parse_single_fasta
BfParse ==
    /\ bf_pc = "validated"
    /\ LET r == parse_single_fasta(contenido)
       IN  IF r.raised # ""
           THEN /\ bf_out' = Append(bf_out, ErrorLine(r.raised))
                /\ bf_rc' = 1 /\ bf_pc' = "done"
                /\ UNCHANGED <<header, seq_raw>>
           ELSE /\ header' = r.header /\ seq_raw' = r.seq_raw
                /\ bf_pc' = "parsed" /\ UNCHANGED <<bf_out, bf_rc>>
    /\ UNCHANGED <<fs, contenido, seq_clean, invalid_chars, notBf>>

\* main, lines 159-167: clean_sequence, the advisories, the empty check
BfClean ==
    /\ bf_pc = "parsed"
    /\ LET r == clean_sequence(seq_raw)
           avisos == Avisos(r.invalid, header)
       IN  /\ seq_clean' = r.clean
           /\ invalid_chars' = r.invalid
           /\ IF Len(r.clean) = 0
              THEN /\ bf_out' = bf_out \o avisos \o <<ErrorLine(MSG_NO_VALID)>>
                   /\ bf_rc' = 1 /\ bf_pc' = "done"
              ELSE /\ bf_out' = bf_out \o avisos
                   /\ bf_pc' = "cleaned" /\ UNCHANGED bf_rc
    /\ UNCHANGED <<fs, contenido, header, seq_raw, notBf>>

\* main, lines 170-172: compute_base_counts, print_results, return 0
BfReport ==
    /\ bf_pc = "cleaned"
    /\ bf_out' = bf_out \o print_results(header, compute_base_counts(seq_clean))
    /\ bf_rc' = 0 /\ bf_pc' = "done"
    /\ UNCHANGED <<fs, contenido, header, seq_raw, seq_clean, invalid_chars, notBf>>

BfNext == BfReadFile \/ BfValidate \/ BfParse \/ BfClean \/ BfReport

InitBaseFreq == BfInit /\ CsIdle /\ AtIdle /\ GeIdle /\ KmIdle /\ RpsIdle

SpecBaseFreq == InitBaseFreq /\ [][BfNext]_vars

----------------------------------------------------------------------------
(* base_freq.py: clean_sequence as a function of any str                   *)

CleanAlphabet == {"A", "T", "g", "c", "N", "x", " ", "\n"}

\* the argument of tests/test_base_freq.py, test_clean_sequence_and_invalids
EX_CLEAN == <<"a","T","g","N","x","y","z"," ","\n">>

CsInit ==
    /\ cs_seq \in StringsUpTo(CleanAlphabet, MaxCleanLen) \cup {EX_CLEAN}
    /\ cs_ret = [clean |-> <<>>, invalid |-> <<>>]
    /\ cs_pc = "call"

CsCall ==
    /\ cs_pc = "call"
    /\ cs_ret' = clean_sequence(cs_seq)
    /\ cs_pc' = "done"
    /\ UNCHANGED <<cs_seq, notCs>>

CsNext == CsCall

InitCleanSequence == CsInit /\ BfIdle /\ AtIdle /\ GeIdle /\ KmIdle /\ RpsIdle

SpecCleanSequence == InitCleanSequence /\ [][CsNext]_vars

----------------------------------------------------------------------------
(* at_content.py                                                           *)

DnaAlphabet == {"A", "t", "G", "N"}

\* the argument of the assertion of the __main__ block
EX_AT == <<"A","T","G","N","N","N","C">>

RECURSIVE Gcd(_, _)
Gcd(a, b) == IF b = 0 THEN a ELSE Gcd(b, a % b)

RECURSIVE IsPowerOfTwo(_)
IsPowerOfTwo(n) ==
    IF n = 1 THEN TRUE
    ELSE IF n % 2 # 0 THEN FALSE
    ELSE IsPowerOfTwo(n \div 2)

\* round(num / den, n) of the float num / den, for num >= 0, den > 0, n >= 0:
\* the integers k such that the result can be the float nearest k / 10^n.
\* The float equals num / den exactly only when the reduced denominator is a
\* power of two; an exact tie is then rounded half to even.  A quotient that
\* is a decimal tie but no float lies on one side of the tie, which side is
\* decided by the division's rounding error: either neighbour.
round_float(num, den, n) ==
    LET scaled == num * (10 ^ n)
        m      == scaled \div den
        r      == scaled % den
        exact  == IsPowerOfTwo(den \div Gcd(num, den))
    IN  IF 2 * r < den THEN {m}
        ELSE IF 2 * r > den THEN {m + 1}
        ELSE IF exact THEN {IF m % 2 = 0 THEN m ELSE m + 1}
        ELSE {m, m + 1}

\* get_at_content: the outcomes (ZeroDivisionError, or the float
\* scaled / 10^digits)
get_at_content(d, sf) ==
    LET up     == Upper(d)
        length == Len(up)
        a      == Count(up, "A")
        t      == Count(up, "T")
    IN  IF length = 0
        THEN {[raised |-> "ZeroDivisionError", scaled |-> 0, digits |-> 0]}
        ELSE {[raised |-> "", scaled |-> k, digits |-> sf] :
                  k \in round_float(a + t, length, sf)}

AtInit ==
    /\ dna \in StringsUpTo(DnaAlphabet, MaxDnaLen) \cup {EX_AT}
    /\ sig_figs \in 0..MaxSigFigs
    /\ at_ret = [raised |-> "", scaled |-> 0, digits |-> 0]
    /\ at_pc = "call"

AtCall ==
    /\ at_pc = "call"
    /\ at_ret' \in get_at_content(dna, sig_figs)
    /\ at_pc' = "done"
    /\ UNCHANGED <<dna, sig_figs, notAt>>

AtNext == AtCall

InitAtContent == AtInit /\ BfIdle /\ CsIdle /\ GeIdle /\ KmIdle /\ RpsIdle

SpecAtContent == InitAtContent /\ [][AtNext]_vars

----------------------------------------------------------------------------
(* gene_expression.py                                                      *)

\* the characters of the model in code-point order
CodePointOrder ==
    <<"\t", "\n", "\r", " ", "+", "-", "0", "1", "2", "3", "4", "5", "6", "7", "8", "9",
      ">", "A", "B", "C", "G", "N", "T", "X", "a", "c", "g", "n", "t", "x">>

\* ord(c), up to a monotone renumbering
Ord(c) == CHOOSE i \in 1..Len(CodePointOrder) : CodePointOrder[i] = c

\* s < t for two str
RECURSIVE StrLess(_, _)
StrLess(s, t) ==
    IF t = <<>> THEN FALSE
    ELSE IF s = <<>> THEN TRUE
    ELSE IF Head(s) = Head(t) THEN StrLess(Tail(s), Tail(t))
    ELSE Ord(Head(s)) < Ord(Head(t))

IsDigit(c) == c \in {"0", "1", "2", "3", "4", "5", "6", "7", "8", "9"}

DigitValue(c) == Ord(c) - Ord("0")

\* the value of a run of decimal digits
RECURSIVE DigitsValue(_, _)
DigitsValue(s, acc) ==
    IF s = <<>> THEN acc ELSE DigitsValue(Tail(s), 10 * acc + DigitValue(Head(s)))

NaN == [nan |-> TRUE, value |-> 0]

\* pd.to_numeric(errors="coerce") of one cell: an optionally signed run of
\* digits is its number; an empty cell and any other text are NaN
to_numeric(cell) ==
    LET signed == cell # <<>> /\ Head(cell) \in {"-", "+"}
        body   == IF signed THEN Tail(cell) ELSE cell
        sign   == IF signed /\ Head(cell) = "-" THEN -1 ELSE 1
    IN  IF body = <<>> \/ \E i \in 1..Len(body) : ~IsDigit(body[i]) THEN NaN
        ELSE [nan |-> FALSE, value |-> sign * DigitsValue(body, 0)]

\* df.dropna(subset=["expression"])
dropna(rows) == SelectSeq(rows, LAMBDA r : ~r.expression.nan)

\* load_expression_table: ValueError, or the DataFrame; a row keeps its index
load_expression_table(t) ==
    IF "gene" \notin t.columns \/ "expression" \notin t.columns
    THEN [raised |-> "ValueError", df |-> <<>>]
    ELSE LET numeric == [i \in 1..Len(t.rows) |->
                            [idx |-> i - 1, gene |-> t.rows[i].gene,
                             expression |-> to_numeric(t.rows[i].expression)]]
         IN  [raised |-> "", df |-> dropna(numeric)]

boolean_mask_strict(rows, th) ==
    SelectSeq(rows, LAMBDA r : ~r.expression.nan /\ r.expression.value > th)

\* df[df["expression"] >= threshold]
boolean_mask(rows, th) ==
    SelectSeq(rows, LAMBDA r : ~r.expression.nan /\ r.expression.value >= th)

sort_values_not_sorted(rows) == {rows}

\* filtered.sort_values("gene"): the orders of the rows that ascend by gene
\* (the default sort is not stable: rows of equal gene come in any order)
sort_values(rows) ==
    LET n     == Len(rows)
        perms == {p \in [1..n -> 1..n] : \A i, j \in 1..n : p[i] = p[j] => i = j}
        ascending(p) == \A i, j \in 1..n :
                            i < j => ~StrLess(rows[p[j]].gene, rows[p[i]].gene)
    IN  {[i \in 1..n |-> rows[p[i]]] : p \in {q \in perms : ascending(q)}}

\* filter_gene: the DataFrames it can return
filter_gene(rows, th) == sort_values(boolean_mask(rows, th))

Genes == {<<"B">>, <<"a">>, <<"B", "a">>}
ExprCells == {<<"5">>, <<"1", "0">>, <<"-", "1">>, <<"x">>}
Thresholds == {0, 5}

TableRows == [gene : Genes, expression : ExprCells]

\* a table with both columns and up to MaxRows rows, or an empty table that
\* lacks a required column
Tables ==
    {[columns |-> {"gene", "expression"}, rows |-> r] :
        r \in UNION {[1..k -> TableRows] : k \in 0..MaxRows}}
    \cup {[columns |-> c, rows |-> <<>>] : c \in {{"gene"}, {"expression"}, {"gen", "expr"}}}

GeLine(text, gene) == [text |-> text, gene |-> gene]

GeInit ==
    /\ ge_table \in Tables
    /\ threshold \in Thresholds
    /\ df = <<>> /\ filtered = <<>> /\ ge_out = <<>>
    /\ ge_raised = "" /\ ge_pc = "start"

\* main, line 98: load_expression_table
GeLoad ==
    /\ ge_pc = "start"
    /\ LET r == load_expression_table(ge_table)
       IN  IF r.raised # ""
           THEN ge_raised' = r.raised /\ ge_pc' = "done" /\ UNCHANGED df
           ELSE df' = r.df /\ ge_pc' = "loaded" /\ UNCHANGED ge_raised
    /\ UNCHANGED <<ge_table, threshold, filtered, ge_out, notGe>>

\* main, line 104: filter_gene
GeFilter ==
    /\ ge_pc = "loaded"
    /\ filtered' \in filter_gene(df, threshold)
    /\ ge_pc' = "filtered"
    /\ UNCHANGED <<ge_table, threshold, df, ge_out, ge_raised, notGe>>

\* main, lines 107-114: the printed lines
GePrint ==
    /\ ge_pc = "filtered"
    /\ IF filtered = <<>>
       THEN ge_out' = <<GeLine("No se encontraron genes por encima del threshold.", <<>>)>>
       ELSE ge_out' = <<GeLine("Genes filtrados:", <<>>)>>
                         \o [i \in 1..Len(filtered) |-> GeLine("", filtered[i].gene)]
    /\ ge_pc' = "done"
    /\ UNCHANGED <<ge_table, threshold, df, filtered, ge_raised, notGe>>

GeNext == GeLoad \/ GeFilter \/ GePrint

InitGeneExpression == GeInit /\ BfIdle /\ CsIdle /\ AtIdle /\ KmIdle /\ RpsIdle

SpecGeneExpression == InitGeneExpression /\ [][GeNext]_vars

----------------------------------------------------------------------------
(* k_mers.py                                                               *)

MSG_SEQ_NONE    == "La secuencia no puede ser nula"
MSG_SEQ_EMPTY   == "La secuencia está vacía después de eliminar espacios"
MSG_SEQ_INVALID == "La secuencia contiene caracteres inválidos"
MSG_K_POSITIVE  == "k debe ser un entero positivo"
MSG_K_TOO_LARGE == "k no puede ser mayor que la longitud de la secuencia"

allowed == {"A", "T", "C", "G"}

\* str.split(): the maximal runs of non-whitespace characters
RECURSIVE SplitWhitespace(_)
SplitWhitespace(s) ==
    LET t == LStrip(s)
    IN  IF t = <<>> THEN <<>>
        ELSE LET stop == IF \E i \in 1..Len(t) : IsSpace(t[i])
                         THEN CHOOSE i \in 1..Len(t) :
                                  IsSpace(t[i]) /\ \A j \in 1..(i - 1) : ~IsSpace(t[j])
                         ELSE Len(t) + 1
             IN  <<SubSeq(t, 1, stop - 1)>> \o SplitWhitespace(SubSeq(t, stop, Len(t)))

\* sorted(set of characters)
SortedChars(S) ==
    CHOOSE q \in [1..Cardinality(S) -> S] :
        \A i, j \in 1..Cardinality(S) : i < j => Ord(q[i]) < Ord(q[j])

validate_sequence_strip_only(arg) ==
    IF arg.none
    THEN [raised |-> MSG_SEQ_NONE, invalid |-> <<>>, value |-> <<>>]
    ELSE LET normalized == Upper(Strip(arg.value))
             invalid    == {normalized[i] : i \in 1..Len(normalized)} \ allowed
         IN  IF Len(normalized) = 0
             THEN [raised |-> MSG_SEQ_EMPTY, invalid |-> <<>>, value |-> <<>>]
             ELSE IF invalid # {}
             THEN [raised |-> MSG_SEQ_INVALID, invalid |-> SortedChars(invalid),
                   value |-> <<>>]
             ELSE [raised |-> "", invalid |-> <<>>, value |-> normalized]

\* validate_sequence: the ValueError raised with the characters it lists, or
\* the normalized sequence
validate_sequence(arg) ==
    IF arg.none
    THEN [raised |-> MSG_SEQ_NONE, invalid |-> <<>>, value |-> <<>>]
    ELSE LET normalized == Upper(Join(SplitWhitespace(arg.value)))
             invalid    == {normalized[i] : i \in 1..Len(normalized)} \ allowed
         IN  IF Len(normalized) = 0
             THEN [raised |-> MSG_SEQ_EMPTY, invalid |-> <<>>, value |-> <<>>]
             ELSE IF invalid # {}
             THEN [raised |-> MSG_SEQ_INVALID, invalid |-> SortedChars(invalid),
                   value |-> <<>>]
             ELSE [raised |-> "", invalid |-> <<>>, value |-> normalized]

check_k_rejects_full_length(sq, k) ==
    IF ~k.is_int \/ k.value <= 0 THEN MSG_K_POSITIVE
    ELSE IF k.value >= Len(sq) THEN MSG_K_TOO_LARGE
    ELSE ""

\* count_kmers, lines 71-74: the ValueError raised for k, "" when none
check_k(sq, k) ==
    IF ~k.is_int \/ k.value <= 0 THEN MSG_K_POSITIVE
    ELSE IF k.value > Len(sq) THEN MSG_K_TOO_LARGE
    ELSE ""

range_stop_one_short(sq, k) == Len(sq) - k

\* the stop of range(len(seq) - k + 1)
range_stop(sq, k) == Len(sq) - k + 1

\* seq[i : i + k]
Slice(sq, i, k) == SubSeq(sq, i + 1, i + k)

\* counts.get(kmer, 0)
DictGet(d, key) == IF key \in DOMAIN d THEN d[key] ELSE 0

\* counts[kmer] = value
DictSet(d, key, value) ==
    [x \in DOMAIN d \cup {key} |-> IF x = key THEN value ELSE d[x]]

KmAlphabet == {"A", "c", " ", "x", "n"}

\* the sequence of tests/test_kmers.py, test_count_kmers_basic_and_overlapping
EX_KMERS == <<"A","T","C","G","A","T","C","G","A">>

\* a k that is no int (a float)
NotAnInt == [is_int |-> FALSE, value |-> 2]

KmArgs ==
    {[none |-> TRUE, value |-> <<>>]}
    \cup {[none |-> FALSE, value |-> v] : v \in StringsUpTo(KmAlphabet, MaxSeqLen)}

KmKs == {[is_int |-> TRUE, value |-> v] : v \in (-1)..(MaxSeqLen + 1)} \cup {NotAnInt}

KmInit ==
    /\ \/ km_arg \in KmArgs /\ km_k \in KmKs
       \/ /\ km_arg = [none |-> FALSE, value |-> EX_KMERS]
          /\ km_k \in {[is_int |-> TRUE, value |-> v] : v \in {1, 3, 9}}
    /\ km_seq = <<>> /\ km_counts = <<>> /\ km_i = 0
    /\ km_raised = "" /\ km_invalid = <<>> /\ km_pc = "start"

\* validate_sequence
KmValidate ==
    /\ km_pc = "start"
    /\ LET r == validate_sequence(km_arg)
       IN  IF r.raised # ""
           THEN /\ km_raised' = r.raised /\ km_invalid' = r.invalid
                /\ km_pc' = "done" /\ UNCHANGED km_seq
           ELSE /\ km_seq' = r.value /\ km_pc' = "validated"
                /\ UNCHANGED <<km_raised, km_invalid>>
    /\ UNCHANGED <<km_arg, km_k, km_counts, km_i, notKm>>

\* count_kmers, lines 71-77: the checks of k and the empty dict
KmCountStart ==
    /\ km_pc = "validated"
    /\ LET e == check_k(km_seq, km_k)
       IN  IF e # ""
           THEN km_raised' = e /\ km_pc' = "done" /\ UNCHANGED <<km_counts, km_i>>
           ELSE km_counts' = <<>> /\ km_i' = 0 /\ km_pc' = "loop" /\ UNCHANGED km_raised
    /\ UNCHANGED <<km_arg, km_k, km_seq, km_invalid, notKm>>

\* count_kmers, lines 79-82: one pass of the loop body
KmCountStep ==
    /\ km_pc = "loop"
    /\ km_i < range_stop(km_seq, km_k.value)
    /\ LET kmer == Slice(km_seq, km_i, km_k.value)
       IN  km_counts' = DictSet(km_counts, kmer, DictGet(km_counts, kmer) + 1)
    /\ km_i' = km_i + 1
    /\ UNCHANGED <<km_arg, km_k, km_seq, km_raised, km_invalid, km_pc, notKm>>

\* count_kmers, line 83: return counts
KmCountReturn ==
    /\ km_pc = "loop"
    /\ km_i >= range_stop(km_seq, km_k.value)
    /\ km_pc' = "returned"
    /\ UNCHANGED <<km_arg, km_k, km_seq, km_counts, km_i, km_raised, km_invalid, notKm>>

KmNext == KmValidate \/ KmCountStart \/ KmCountStep \/ KmCountReturn

InitKmers == KmInit /\ BfIdle /\ CsIdle /\ AtIdle /\ GeIdle /\ RpsIdle

SpecKmers == InitKmers /\ [][KmNext]_vars

----------------------------------------------------------------------------
(* rps.py                                                                  *)

ROCK     == <<"r", "o", "c", "k">>
PAPER    == <<"p", "a", "p", "e", "r">>
SCISSORS == <<"s", "c", "i", "s", "s", "o", "r", "s">>

VALID_CHOICES == <<ROCK, PAPER, SCISSORS>>

\* x in a list
InList(x, list) == \E i \in 1..Len(list) : list[i] = x

\* str.lower for one character (the characters the model uses)
LowerChar(c) ==
    CASE c = "R" -> "r" [] c = "O" -> "o" [] c = "C" -> "c" [] c = "K" -> "k"
      [] c = "P" -> "p" [] c = "S" -> "s"
      [] OTHER -> c

\* str.lower
Lower(s) == [i \in 1..Len(s) |-> LowerChar(s[i])]

\* the dict wins: the key beats the value
wins == (ROCK :> SCISSORS) @@ (SCISSORS :> PAPER) @@ (PAPER :> ROCK)

\* None
None == <<"N", "o", "n", "e">>

determine_result_reversed(user, cpu) ==
    IF user = cpu THEN "draw"
    ELSE IF (IF user \in DOMAIN wins THEN wins[user] ELSE None) = cpu THEN "lose"
    ELSE "win"

\* determine_result
determine_result(user, cpu) ==
    IF user = cpu THEN "draw"
    ELSE IF (IF user \in DOMAIN wins THEN wins[user] ELSE None) = cpu THEN "win"
    ELSE "lose"

\* play: the ValueError, or a round with any choice of the CPU
play(user_choice) ==
    IF ~InList(user_choice, VALID_CHOICES)
    THEN {[raised |-> "ValueError", cpu |-> <<>>, result |-> ""]}
    ELSE {[raised |-> "", cpu |-> VALID_CHOICES[i],
           result |-> determine_result(user_choice, VALID_CHOICES[i])] :
              i \in 1..Len(VALID_CHOICES)}

main_rejects_nothing(choice) == FALSE

\* main, line 91: user_input not in VALID_CHOICES
main_rejects(choice) == ~InList(choice, VALID_CHOICES)

\* one printed line: its fixed text and the choice or the result it shows
RpsLine(text, arg, res) == [text |-> text, arg |-> arg, res |-> res]

RPS_PROMPT  == RpsLine("Tu elección (rock/paper/scissors) > ", <<>>, "")
RPS_BYE     == RpsLine("¡Gracias por jugar! Hasta la próxima", <<>>, "")
RPS_INVALID == RpsLine("Entrada inválida. Escribe rock, paper o scissors.", <<>>, "")
RPS_WON     == RpsLine("¡Ganaste!", <<>>, "")

\* the four lines main prints before the loop
RPS_BANNER ==
    << RpsLine("Rock, Paper, Scissors Game", <<>>, ""),
       RpsLine("Escribe rock, paper o scissors.", <<>>, ""),
       RpsLine("Presiona ENTER sin escribir nada para salir.", <<>>, ""),
       RpsLine("----------------------------------------", <<>>, "") >>

\* the lines a user types: nothing, a space, the three choices, a choice in
\* capitals with a space before it, a word that is no choice
RpsLines ==
    {<<>>, <<" ">>, ROCK, PAPER, SCISSORS, <<" ", "R", "O", "C", "K">>,
     <<"s", "p", "o", "c", "k">>}

RpsInit ==
    /\ rps_stdin \in UNION {[1..n -> RpsLines] : n \in 0..MaxInputLines}
    /\ user_input = <<>> /\ cpu_choice = <<>> /\ result = ""
    /\ rps_rounds = 0 /\ rps_out = <<>> /\ rps_raised = "" /\ rps_pc = "start"

\* main, lines 77-80: the banner
RpsBanner ==
    /\ rps_pc = "start"
    /\ rps_out' = rps_out \o RPS_BANNER
    /\ rps_pc' = "loop"
    /\ UNCHANGED <<rps_stdin, user_input, cpu_choice, result, rps_rounds, rps_raised, notRps>>

\* main, line 84: input writes the prompt
RpsPrompt ==
    /\ rps_pc = "loop"
    /\ rps_out' = Append(rps_out, RPS_PROMPT)
    /\ rps_pc' = "reading"
    /\ UNCHANGED <<rps_stdin, user_input, cpu_choice, result, rps_rounds, rps_raised, notRps>>

\* main, line 84: input finds standard input at its end
RpsEndOfInput ==
    /\ rps_pc = "reading"
    /\ rps_stdin = <<>>
    /\ rps_raised' = "EOFError"
    /\ rps_pc' = "done"
    /\ UNCHANGED <<rps_stdin, user_input, cpu_choice, result, rps_rounds, rps_out, notRps>>

\* main, lines 84-89: a line that is empty once stripped ends the loop
RpsQuit ==
    /\ rps_pc = "reading"
    /\ rps_stdin # <<>>
    /\ LET line == Lower(Strip(Head(rps_stdin)))
       IN  /\ line = <<>>
           /\ user_input' = line
    /\ rps_stdin' = Tail(rps_stdin)
    /\ rps_out' = Append(rps_out, RPS_BYE)
    /\ rps_pc' = "done"
    /\ UNCHANGED <<cpu_choice, result, rps_rounds, rps_raised, notRps>>

\* main, lines 84-93: a line that is no choice
RpsInvalid ==
    /\ rps_pc = "reading"
    /\ rps_stdin # <<>>
    /\ LET line == Lower(Strip(Head(rps_stdin)))
       IN  /\ line # <<>>
           /\ main_rejects(line)
           /\ user_input' = line
    /\ rps_stdin' = Tail(rps_stdin)
    /\ rps_out' = Append(rps_out, RPS_INVALID)
    /\ rps_pc' = "loop"
    /\ UNCHANGED <<cpu_choice, result, rps_rounds, rps_raised, notRps>>

\* main, lines 84-99: a round
RpsRound ==
    /\ rps_pc = "reading"
    /\ rps_stdin # <<>>
    /\ LET line == Lower(Strip(Head(rps_stdin)))
       IN  /\ line # <<>>
           /\ ~main_rejects(line)
           /\ user_input' = line
           /\ \E r \in play(line) :
                 IF r.raised # ""
                 THEN /\ rps_raised' = r.raised /\ rps_pc' = "done"
                      /\ UNCHANGED <<cpu_choice, result, rps_out>>
                 ELSE /\ cpu_choice' = r.cpu /\ result' = r.result
                      /\ rps_out' = rps_out
                            \o << RpsLine("CPU:", r.cpu, ""),
                                  RpsLine("Resultado:", <<>>, r.result) >>
                            \o (IF r.result = "win" THEN <<RPS_WON>> ELSE <<>>)
                      /\ rps_pc' = "loop" /\ UNCHANGED rps_raised
    /\ rps_rounds' = rps_rounds + 1
    /\ rps_stdin' = Tail(rps_stdin)
    /\ UNCHANGED notRps

RpsNext == RpsBanner \/ RpsPrompt \/ RpsEndOfInput \/ RpsQuit \/ RpsInvalid \/ RpsRound

InitRps == RpsInit /\ BfIdle /\ CsIdle /\ AtIdle /\ GeIdle /\ KmIdle

SpecRps == InitRps /\ [][RpsNext]_vars

\* the interpreter runs main to its end: a step that can be taken is taken
SpecRpsFair == InitRps /\ [][RpsNext]_vars /\ WF_vars(RpsNext)

----------------------------------------------------------------------------
(* Properties of base_freq.py                                              *)

\* index of the first c in s
FirstIndex(s, c) ==
    CHOOSE i \in 1..Len(s) : s[i] = c /\ \A j \in 1..(i - 1) : s[j] # c

\* the text between the first marker and the next marker or the end
FirstRecord(c) ==
    LET rest == SubSeq(c, FirstIndex(c, ">") + 1, Len(c))
    IN  IF Contains(rest, ">") THEN SubSeq(rest, 1, FirstIndex(rest, ">") - 1)
        ELSE rest

\* s from its first to its last non-whitespace character
Trim(s) ==
    LET solid == {i \in 1..Len(s) : ~IsSpace(s[i])}
    IN  IF solid = {} THEN <<>>
        ELSE SubSeq(s, CHOOSE i \in solid : \A j \in solid : i <= j,
                       CHOOSE i \in solid : \A j \in solid : j <= i)

FirstLine(s) ==
    IF Contains(s, "\n") THEN SubSeq(s, 1, FirstIndex(s, "\n") - 1) ELSE s

LaterLines(s) ==
    IF Contains(s, "\n") THEN SubSeq(s, FirstIndex(s, "\n") + 1, Len(s)) ELSE <<>>

WithoutLineBreaks(s) == SelectSeq(s, LAMBDA ch : ch # "\n")

IsBase(ch) == UpperChar(ch) \in {"A", "T", "G", "C"}

\* header and raw sequence of the first record, the record trimmed as a whole
RecordHeader(c) == FirstLine(Trim(FirstRecord(c)))
RecordSeq(c) == Trim(WithoutLineBreaks(LaterLines(Trim(FirstRecord(c)))))

\* header and raw sequence of the first record, each line taken from the
\* untrimmed record and the header trimmed on its own
TrimmedFirstLine(c) == Trim(FirstLine(FirstRecord(c)))
LaterLinesJoined(c) == Trim(WithoutLineBreaks(LaterLines(FirstRecord(c))))

ErrorLines(out) == SelectSeq(out, LAMBDA l : l.kind = "error")
ReportLines(out) == SelectSeq(out, LAMBDA l : l.kind = "report")
AvisoLines(out) == SelectSeq(out, LAMBDA l : l.kind = "aviso")
AvisoChars(out) == [i \in 1..Len(AvisoLines(out)) |-> AvisoLines(out)[i].ch]

\* the number printed on the report line that starts with text
Reported(out, text) ==
    (CHOOSE l \in {out[i] : i \in 1..Len(out)} : l.kind = "report" /\ l.text = text).n

BfSucceeds(f) ==
    /\ f.exists /\ f.readable
    /\ Contains(f.content, ">")
    /\ RecordSeq(f.content) # <<>>
    /\ \E i \in 1..Len(RecordSeq(f.content)) : IsBase(RecordSeq(f.content)[i])

BfExpectedError(f) ==
    IF ~f.exists THEN MSG_NOT_FOUND
    ELSE IF ~f.readable THEN MSG_IO
    ELSE IF ~Contains(f.content, ">") THEN MSG_NOT_FASTA
    ELSE IF RecordSeq(f.content) = <<>> THEN MSG_EMPTY_SEQ
    ELSE MSG_NO_VALID

\* C1: main returns 0 exactly when the file exists, is readable, has the
\* marker, its first record has a non-empty raw sequence and that sequence has
\* a valid base; otherwise it returns 1, prints exactly one error message, the
\* one of the failing condition, which differs from the message of every other
\* condition, and prints no report line.
C1_ExitCodeAndMessages ==
    /\ Cardinality({MSG_NOT_FOUND, MSG_IO, MSG_NOT_FASTA, MSG_EMPTY_SEQ, MSG_NO_VALID}) = 5
    /\ bf_pc = "done" =>
          /\ bf_rc \in {0, 1}
          /\ bf_rc = 0 <=> BfSucceeds(fs)
          /\ bf_rc = 1 => /\ ErrorLines(bf_out) = <<ErrorLine(BfExpectedError(fs))>>
                          /\ ReportLines(bf_out) = <<>>
          /\ bf_rc = 0 => /\ ErrorLines(bf_out) = <<>>
                          /\ ReportLines(bf_out) # <<>>

\* a run that fails for lack of valid bases, after its advisories
C1_Witness ==
    /\ bf_pc = "done" /\ bf_rc = 1
    /\ AvisoLines(bf_out) # <<>>
    /\ ErrorLines(bf_out) = <<ErrorLine(MSG_NO_VALID)>>

\* C2: a content with the marker whose split yields no record body (the text
\* after the first marker is empty, as in the content ">") fails with the
\* "empty FASTA" message and no other.
C2_EmptyFastaCondition ==
    (/\ bf_pc = "done" /\ fs.exists /\ fs.readable
     /\ Contains(fs.content, ">") /\ FirstRecord(fs.content) = <<>>)
    => ErrorLines(bf_out) = <<ErrorLine(MSG_EMPTY_FASTA)>>

\* parse_single_fasta has returned
BfParsed == bf_pc \in {"parsed", "cleaned"} \/ (bf_pc = "done" /\ seq_raw # <<>>)

\* C3 as stated: the header is the first line after the first marker, trimmed,
\* and the raw sequence is the later lines of that record, joined and trimmed.
C3_HeaderIsTrimmedFirstLine ==
    BfParsed => /\ header = TrimmedFirstLine(contenido)
                /\ seq_raw = LaterLinesJoined(contenido)

\* C3 as amended: only the first record is used, trimmed as a whole; the
\* header is the first line of the trimmed record, as it is, and the raw
\* sequence is its later lines, joined with no separator and trimmed;
\* parse_single_fasta raises exactly when that sequence is empty.
C3_FirstRecordOnly ==
    /\ BfParsed => /\ header = RecordHeader(contenido)
                   /\ seq_raw = RecordSeq(contenido)
    /\ (bf_pc \in {"parsed", "cleaned", "done"} /\ Contains(contenido, ">")) =>
          (BfParsed <=> RecordSeq(contenido) # <<>>)

\* a parsed content with a second record that has text of its own
C3_Witness ==
    /\ BfParsed
    /\ Count(contenido, ">") >= 2
    /\ Len(contenido) > Len(FirstRecord(contenido)) + 2
    /\ header # <<>>

\* C5: whenever a report is printed, the counts it shows satisfy
\* A + T + G + C = total, and total is the length of the cleaned sequence and
\* the number of characters of the first record's raw sequence that are
\* A, T, G or C after uppercasing.
C5_CountsSumToTotal ==
    ReportLines(bf_out) # <<>> =>
        LET total == Reported(bf_out, "Longitud secuencia válida:")
            raw   == RecordSeq(fs.content)
        IN  /\ Reported(bf_out, "A:") + Reported(bf_out, "T:")
                 + Reported(bf_out, "G:") + Reported(bf_out, "C:") = total
            /\ total = Len(seq_clean)
            /\ total = Cardinality({i \in 1..Len(raw) : IsBase(raw[i])})

\* a report over a sequence that had invalid characters and several bases
C5_Witness ==
    /\ ReportLines(bf_out) # <<>>
    /\ invalid_chars # <<>>
    /\ Reported(bf_out, "G:") >= 1
    /\ Reported(bf_out, "Longitud secuencia válida:") >= 2

\* main has run to its end on the content ">seq1\nATGCatgNxyz\n"
BfRanOnSeq1 ==
    /\ fs = [exists |-> TRUE, readable |-> TRUE, content |-> EX_SEQ1]
    /\ bf_pc = "done"

\* every advisory is printed before every report line
AvisosBeforeReport(out) ==
    \A i, j \in 1..Len(out) :
        (out[i].kind = "aviso" /\ out[j].kind = "report") => i < j

\* C6 as stated: on ">seq1\nATGCatgNxyz\n" the advisories are for N, X, Y, Z in
\* that order, before the report, and the valid length printed is 8.
C6_Seq1ValidLengthEight ==
    BfRanOnSeq1 =>
        /\ AvisoChars(bf_out) = <<"N", "X", "Y", "Z">>
        /\ AvisosBeforeReport(bf_out)
        /\ ReportLines(bf_out) # <<>>
        /\ Reported(bf_out, "Longitud secuencia válida:") = 8

\* C6 as amended: on ">seq1\nATGCatgNxyz\n" the advisories are for N, X, Y, Z
\* in that order, each naming the header seq1, before the report, and the
\* valid length printed is 7 (ATGCatg).
C6_Seq1ValidLengthSeven ==
    BfRanOnSeq1 =>
        /\ AvisoChars(bf_out) = <<"N", "X", "Y", "Z">>
        /\ \A i \in 1..Len(AvisoLines(bf_out)) :
              AvisoLines(bf_out)[i].arg = <<"s", "e", "q", "1">>
        /\ AvisosBeforeReport(bf_out)
        /\ ReportLines(bf_out) # <<>>
        /\ Reported(bf_out, "Longitud secuencia válida:") = 7

C6_Witness == BfRanOnSeq1 /\ bf_rc = 0

----------------------------------------------------------------------------
(* Properties of clean_sequence                                            *)

\* C4: clean_sequence partitions the uppercased input: the cleaned sequence is
\* its subsequence of A, T, G, C in order, the invalid list is the subsequence
\* of all other characters in order, duplicates kept, and every character is
\* in exactly one of the two.
C4_CleanPartitions ==
    cs_pc = "done" =>
        LET up == Upper(cs_seq)
        IN  /\ cs_ret.clean = SelectSeq(up, LAMBDA ch : ch \in {"A", "T", "G", "C"})
            /\ cs_ret.invalid = SelectSeq(up, LAMBDA ch : ch \notin {"A", "T", "G", "C"})
            /\ Len(cs_ret.clean) + Len(cs_ret.invalid) = Len(cs_seq)

\* the call of the test: lower-case bases, invalid letters, a space, a newline
C4_Witness ==
    /\ cs_pc = "done"
    /\ cs_seq = EX_CLEAN
    /\ cs_ret.clean = <<"A", "T", "G">>
    /\ cs_ret.invalid = <<"N", "X", "Y", "Z", " ", "\n">>

----------------------------------------------------------------------------
(* Properties of get_at_content                                            *)

\* C7: get_at_content("ATGNNNC", 1) returns 0.5, so the assertion of the
\* __main__ block holds.
C7_AssertionHolds ==
    (at_pc = "done" /\ dna = EX_AT /\ sig_figs = 1) =>
        /\ at_ret.raised = ""
        /\ at_ret.scaled * 10 = 5 * (10 ^ at_ret.digits)

----------------------------------------------------------------------------
(* Properties of gene_expression.py                                        *)

\* the expression cell of an input row of the enumerated tables is a number
ParsesAsNumber(cell) == cell \in {<<"5">>, <<"1", "0">>, <<"-", "1">>}

\* the number an expression cell of the enumerated tables denotes
NumberOf(cell) ==
    CASE cell = <<"5">> -> 5 [] cell = <<"1", "0">> -> 10 [] cell = <<"-", "1">> -> -1
      [] OTHER -> 0

\* the indices (from 0) of the input rows that are to be retained
Retained(t, th) ==
    {i - 1 : i \in {j \in 1..Len(t.rows) :
                       /\ ParsesAsNumber(t.rows[j].expression)
                       /\ NumberOf(t.rows[j].expression) >= th}}

\* C8: the rows filter_gene returns from the loaded table are exactly the
\* input rows whose expression is a number >= threshold: a row equal to the
\* threshold is kept, an unparseable one is dropped with no error, and no other
\* row is dropped, added or duplicated.
C8_FilterKeepsExactlyRowsAtOrAbove ==
    ge_pc \in {"filtered", "done"} /\ ge_raised = "" =>
        /\ {filtered[i].idx : i \in 1..Len(filtered)} = Retained(ge_table, threshold)
        /\ Len(filtered) = Cardinality(Retained(ge_table, threshold))
        /\ \A i \in 1..Len(filtered) :
              LET row == ge_table.rows[filtered[i].idx + 1]
              IN  /\ filtered[i].gene = row.gene
                  /\ filtered[i].expression.value = NumberOf(row.expression)

\* a row at the threshold is kept and an unparseable row is dropped
C8_Witness ==
    /\ ge_pc = "filtered"
    /\ \E i \in 1..Len(filtered) : filtered[i].expression.value = threshold
    /\ \E j \in 1..Len(ge_table.rows) : ge_table.rows[j].expression = <<"x">>
    /\ \E j \in 1..Len(ge_table.rows) : ge_table.rows[j].expression = <<"-", "1">>

\* the gene identifiers printed, in order
PrintedGenes == [i \in 1..(Len(ge_out) - 1) |-> ge_out[i + 1].gene]

----------------------------------------------------------------------------
(* Properties of k_mers.py                                                 *)

\* the start positions (from 0) of the windows of length k of sq equal to key
Occurrences(sq, k, key) ==
    {i \in 0..(Len(sq) - k) : \A j \in 1..k : sq[i + j] = key[j]}

\* the sum of the values of a dict
RECURSIVE SumOver(_, _)
SumOver(d, keys) ==
    IF keys = {} THEN 0
    ELSE LET key == CHOOSE x \in keys : TRUE
         IN  d[key] + SumOver(d, keys \ {key})

\* C10: for a validated sequence s and 1 <= k <= len(s), every key of the
\* table count_kmers returns has length k, its count is the number of start
\* positions i in 0..len(s)-k with s[i:i+k] equal to it, overlapping windows
\* included, and the counts sum to len(s) - k + 1.
C10_KmerCounts ==
    km_pc = "returned" =>
        LET k == km_k.value
        IN  /\ 1 <= k /\ k <= Len(km_seq)
            /\ \A key \in DOMAIN km_counts :
                  /\ Len(key) = k
                  /\ km_counts[key] = Cardinality(Occurrences(km_seq, k, key))
            /\ SumOver(km_counts, DOMAIN km_counts) = Len(km_seq) - k + 1

\* a table with a k-mer counted at two overlapping windows
C10_Witness ==
    /\ km_pc = "returned"
    /\ km_k.value >= 2
    /\ \E key \in DOMAIN km_counts :
          \E i, j \in Occurrences(km_seq, km_k.value, key) :
              i < j /\ j < i + km_k.value

\* validate_sequence has returned its argument normalized
KmValidated ==
    \/ km_pc \in {"validated", "loop", "returned"}
    \/ km_pc = "done" /\ km_raised \in {MSG_K_POSITIVE, MSG_K_TOO_LARGE}

\* k is no positive integer, or exceeds the length of the validated sequence
KmBadK == ~km_k.is_int \/ km_k.value < 1 \/ km_k.value > Len(km_seq)

\* C11: count_kmers fails with an error and returns no table exactly when k is
\* not a positive integer or exceeds len(s); for 1 <= k <= len(s) it runs its
\* loop, of at most len(s) - k + 1 passes, and returns; for k = len(s) the
\* table is the whole sequence with count 1 and nothing else.
C11_FailsExactlyOnBadK ==
    KmValidated =>
        /\ km_pc = "done" =>
              /\ KmBadK
              /\ km_counts = <<>>
              /\ ~km_k.is_int \/ km_k.value < 1 => km_raised = MSG_K_POSITIVE
        /\ km_pc \in {"loop", "returned"} =>
              /\ ~KmBadK
              /\ km_raised = ""
              /\ 0 <= km_i /\ km_i <= Len(km_seq) - km_k.value + 1
        /\ km_pc = "loop" /\ km_i = Len(km_seq) - km_k.value + 1 =>
              ENABLED KmCountReturn
        /\ km_pc = "returned" /\ km_k.value = Len(km_seq) =>
              km_counts = (km_seq :> 1)

\* count_kmers has returned for k = len(s), s of several characters
C11_Witness ==
    /\ km_pc = "returned"
    /\ km_k.value = Len(km_seq)
    /\ Len(km_seq) >= 2
    /\ DOMAIN km_counts = {km_seq}

\* the argument with every whitespace character removed
WithoutWhitespace(s) == SelectSeq(s, LAMBDA ch : ~IsSpace(ch))

\* the characters of the argument, uppercased, that are none of A, T, C, G
Offending(s) ==
    {UpperChar(s[i]) : i \in 1..Len(s)} \ ({"A", "T", "C", "G"} \cup {" ", "\n", "\t", "\r"})

\* C12: validate_sequence rejects an absent argument, one that is empty once
\* whitespace is removed, and one with a character outside A, T, C, G after
\* uppercasing, listing those characters once each in sorted order; any other
\* argument is returned with all whitespace removed and uppercased, holds only
\* A, T, C, G, and validates to itself.
C12_ValidateSequence ==
    km_pc # "start" =>
        IF km_arg.none
        THEN km_pc = "done" /\ km_raised = MSG_SEQ_NONE
        ELSE IF WithoutWhitespace(km_arg.value) = <<>>
        THEN km_pc = "done" /\ km_raised = MSG_SEQ_EMPTY
        ELSE IF Offending(km_arg.value) # {}
        THEN /\ km_pc = "done" /\ km_raised = MSG_SEQ_INVALID
             /\ {km_invalid[i] : i \in 1..Len(km_invalid)} = Offending(km_arg.value)
             /\ \A i, j \in 1..Len(km_invalid) :
                   i < j => Ord(km_invalid[i]) < Ord(km_invalid[j])
        ELSE /\ KmValidated
             /\ km_invalid = <<>>
             /\ km_seq = Upper(WithoutWhitespace(km_arg.value))
             /\ \A i \in 1..Len(km_seq) : km_seq[i] \in {"A", "T", "C", "G"}
             /\ validate_sequence([none |-> FALSE, value |-> km_seq])
                  = [raised |-> "", invalid |-> <<>>, value |-> km_seq]

\* a rejected argument whose invalid characters come unsorted and repeated
C12_Witness ==
    /\ km_pc = "done" /\ km_raised = MSG_SEQ_INVALID
    /\ km_invalid = <<"N", "X">>
    /\ Head(km_arg.value) = "x"
    /\ Count(km_arg.value, "x") >= 2


----------------------------------------------------------------------------
(* Properties of rps.py                                                    *)

\* the three choices
Choices == {ROCK, PAPER, SCISSORS}

\* the fixed cycle: rock beats scissors, scissors beats paper, paper beats rock
Beats(a, b) ==
    \/ a = ROCK /\ b = SCISSORS
    \/ a = SCISSORS /\ b = PAPER
    \/ a = PAPER /\ b = ROCK

\* the result seen from the other side
Swapped(r) == CASE r = "win" -> "lose" [] r = "lose" -> "win" [] OTHER -> r

\* the last thing main did was to play a round and print its result
RoundPlayed ==
    /\ rps_pc = "loop" /\ rps_rounds > 0 /\ rps_out # <<>>
    /\ rps_out[Len(rps_out)].text \in {"Resultado:", RPS_WON.text}

\* C13: the result of a round is draw when the two choices are equal, win
\* when the choice of the user beats the one of the CPU under the fixed
\* cycle, lose otherwise; determine_result on the two choices swapped
\* returns lose for win, win for lose, draw for draw.
C13_DetermineResultTable ==
    RoundPlayed =>
        /\ user_input \in Choices /\ cpu_choice \in Choices
        /\ result \in {"draw", "win", "lose"}
        /\ result = "draw" <=> user_input = cpu_choice
        /\ result = "win" <=> Beats(user_input, cpu_choice)
        /\ result = "lose" <=> Beats(cpu_choice, user_input)
        /\ determine_result(user_input, cpu_choice) = result
        /\ determine_result(cpu_choice, user_input) = Swapped(result)

\* a round the user lost: rock against paper
C13_Witness ==
    /\ RoundPlayed
    /\ user_input = ROCK /\ cpu_choice = PAPER /\ result = "lose"
    /\ determine_result(cpu_choice, user_input) = "win"

\* main is about to read a line that standard input holds
RpsReads == rps_pc = "reading" /\ rps_stdin # <<>>

\* what a line says: the line without the whitespace around it, in lower case
Entered(line) == Lower(Trim(line))

\* the step main takes on the line `said`: the loop ends on nothing, says so
\* and prompts again on what is no choice, plays one round on a choice
LoopStep(said) ==
    /\ rps_pc = "loop" =>
          /\ rps_pc' = "reading" /\ rps_out' = Append(rps_out, RPS_PROMPT)
          /\ rps_rounds' = rps_rounds
    /\ RpsReads /\ said = <<>> =>
          /\ rps_pc' = "done" /\ rps_raised' = ""
          /\ rps_out' = Append(rps_out, RPS_BYE)
          /\ rps_rounds' = rps_rounds
    /\ RpsReads /\ said # <<>> /\ said \notin Choices =>
          /\ rps_pc' = "loop" /\ rps_raised' = ""
          /\ rps_out' = Append(rps_out, RPS_INVALID)
          /\ rps_rounds' = rps_rounds
    /\ RpsReads /\ said \in Choices =>
          /\ rps_pc' = "loop" /\ rps_raised' = ""
          /\ rps_rounds' = rps_rounds + 1
          /\ user_input' = said /\ cpu_choice' \in Choices
          /\ Len(rps_out') \in {Len(rps_out) + 2, Len(rps_out) + 3}
          /\ rps_out'[Len(rps_out) + 1] = RpsLine("CPU:", cpu_choice', "")
          /\ rps_out'[Len(rps_out) + 2] = RpsLine("Resultado:", <<>>, result')
          /\ \A j \in 1..Len(rps_out') : rps_out'[j] # RPS_INVALID \/ j <= Len(rps_out)
    /\ rps_pc' = "done" => RpsReads \/ (rps_pc = "reading" /\ rps_stdin = <<>>)

\* a line that says nothing is still to be read
BlankAhead ==
    /\ rps_pc \in {"start", "loop", "reading"}
    /\ \E i \in 1..Len(rps_stdin) : Entered(rps_stdin[i]) = <<>>

\* the loop ended on a line that says nothing
SaidGoodbye ==
    /\ rps_pc = "done" /\ rps_raised = "" /\ user_input = <<>>
    /\ rps_out # <<>> /\ rps_out[Len(rps_out)] = RPS_BYE

\* C14 as stated, on the lines as typed: the loop ends on an empty line;
\* every non-empty line that is none of the three choices gets the
\* invalid-input message and a new prompt, no round; every choice plays
\* one round and the loop prompts again.
C14_LinesAsTyped == [][LoopStep(Head(rps_stdin))]_vars

\* C14: for every sequence of input lines, with each line taken without the
\* whitespace around it and in lower case: the loop ends when the line is
\* empty; a non-empty line that is none of the three choices gets the
\* invalid-input message and a new prompt, the loop goes on and no round is
\* played; a choice plays exactly one round and the loop prompts again;
\* play never raises its ValueError; a run with an empty line still to be
\* read reaches the end of the loop.
C14_InteractiveLoop ==
    /\ [][LoopStep(Entered(Head(rps_stdin)))]_vars
    /\ [](rps_raised # "ValueError")
    /\ BlankAhead ~> SaidGoodbye

\* a word that is no choice, rock written " ROCK", then a line that says
\* nothing: one message, one round, three prompts, the end
C14_Witness ==
    /\ SaidGoodbye /\ rps_rounds = 1 /\ rps_stdin = <<>>
    /\ Len(SelectSeq(rps_out, LAMBDA l : l = RPS_INVALID)) = 1
    /\ Len(SelectSeq(rps_out, LAMBDA l : l = RPS_PROMPT)) = 3
    /\ rps_out[Len(RPS_BANNER) + 2] = RPS_INVALID

====
